---- MODULE Spec2Model ----
(***************************************************************************)
(* Model of the client screens of the Airdrop tracker:                     *)
(*   Index       (home / catalog)      src/frontend/app/tabs/_layout.tsx   *)
(*   MyAirdrops  (tracked airdrops)    src/unnamed/part_000                *)
(*   Profile                           src/unnamed/part_001                *)
(*   AirdropDetail                     src/frontend/app/airdrop/[id].tsx   *)
(*                                                                         *)
(* The screens are React components that share no state.  A behaviour of   *)
(* Spec follows one mounted component, chosen by `screen`; the useState    *)
(* cells that several components declare under the same name (loading,     *)
(* refreshing, selectedFilter, user) are one variable, owned by the        *)
(* mounted component.  One action is one JavaScript task: an event handler *)
(* or the arrival of a response, together with every continuation that     *)
(* runs before control returns to the event loop.                          *)
(***************************************************************************)
EXTENDS Integers, Sequences, FiniteSets, TLC

\* ---------------------------------------------------------------- bounds
MaxAirdrops == 2      \* airdrop identifiers are 1..MaxAirdrops
MaxTracked  == 2      \* longest list the backend returns
MaxLoads    == 2      \* the mount's load plus pull-to-refresh loads
MaxPending  == 2      \* tap-issued requests in flight
MaxTasks    == 2      \* task identifiers are 1..MaxTasks
MaxDay      == 1      \* the clock covers the UTC days 0..MaxDay

\* ------------------------------------------------------------ JS values
Null      == [null |-> TRUE]
Undefined == [undefined |-> TRUE]
Truthy(v) == v # Null /\ v # Undefined

AirdropIds == 1..MaxAirdrops
TaskIds    == 1..MaxTasks

\* status strings returned by the backend; "paused" stands for any string
\* outside the known enums
TrackStatuses   == {"not_started", "in_progress", "completed", "paused"}
CatalogStatuses == {"active", "expired", "paused"}

\* the filter chips of the two list screens
TrackedFilters == {"all", "not_started", "in_progress", "completed"}
CatalogFilters == {"all", "active", "upcoming", "expired"}

\* outcomes of one request: OK response, non-OK response, rejected fetch or
\* body read
Outcomes == {"ok", "nonok", "threw"}

\* an object used as a string-keyed dictionary
EmptyDict == [k \in {} |-> Null]
Put(d, k, v) == [x \in (DOMAIN d) \cup {k} |-> IF x = k THEN v ELSE d[x]]
Lookup(d, k) == IF k \in DOMAIN d THEN d[k] ELSE Undefined

\* ----------------------------------------------------------------- time
\* instants are minutes since the epoch; a timestamp string is the instant
\* it denotes (toISOString and the Date constructor are inverse on them)
MinutesPerDay == 1440
Instant(t) == [time |-> t]

\* minutes past UTC midnight at which the clock is sampled
SampleMinutes == {0, 1, 300, 1439}
SampleInstants == {d * MinutesPerDay + m : d \in 0..MaxDay, m \in SampleMinutes}

\* the device's offset from UTC in minutes (UTC, and UTC-5)
TzOffsets == {0, 0 - 300}

\* ------------------------------------------------------- backend bodies
\* GET /api/airdrops/{id}: every airdrop has the tasks 1..MaxTasks
AirdropBody(a) == [id |-> a, tasks |-> [t \in TaskIds |-> [id |-> t]]]

\* the progress_percentage and completed_tasks the backend sends with a
\* status: samples in which the percentage agrees with the share of
\* completed tasks and samples in which it does not
SampleProgress(s) ==
    IF s = "not_started" THEN 0
    ELSE IF s = "in_progress" THEN 50
    ELSE IF s = "completed" THEN 100
    ELSE 75

SampleCompleted(s) == IF s \in {"in_progress", "completed"} THEN <<1>> ELSE << >>

\* one UserAirdropStatus; its own id lives in a namespace apart from the
\* airdrop ids
UserAirdropStatus(a, s) ==
    [id |-> a + MaxAirdrops, airdrop_id |-> a, status |-> s,
     progress_percentage |-> SampleProgress(s), completed_tasks |-> SampleCompleted(s)]

NoDup(seq) == \A i, j \in 1..Len(seq) : i # j => seq[i].airdrop_id # seq[j].airdrop_id

SeqsUpTo(S, n) == UNION {[1..k -> S] : k \in 0..n}

\* GET /api/users/{userId}/airdrops: one record per (user, airdrop) pair
TrackedLists ==
    {l \in SeqsUpTo({UserAirdropStatus(a, s) : a \in AirdropIds, s \in TrackStatuses},
                    MaxTracked) : NoDup(l)}

\* GET /api/airdrops: the catalog, one definition per airdrop
CatalogLists ==
    {l \in SeqsUpTo({[id |-> a, status |-> s] : a \in AirdropIds, s \in CatalogStatuses},
                    MaxTracked) : \A i, j \in 1..Len(l) : i # j => l[i].id # l[j].id}

\* GET /api/users/{userId}
UserBodies ==
    {[total_points |-> 10, daily_streak |-> 1, last_checkin |-> lc] :
        lc \in {Undefined, Instant(1)}}

\* POST .../checkin, OK body
CheckinResults == {[points_earned |-> 10, streak |-> 2, total_points |-> 20]}

\* POST .../checkin, non-OK body: a message, an empty message, no message,
\* or a body that is not JSON
CheckinErrors ==
    {[message |-> "Already checked in today"], [message |-> ""], [code |-> 400],
     [notJson |-> TRUE]}

VARIABLES
    screen,           \* the mounted component
    loading,          \* useState(true)
    refreshing,       \* useState(false)
    selectedFilter,   \* useState('all')
    loadsStarted,     \* runs of the mount effect and of handleRefresh
    alert,            \* the dialog of the latest Alert.alert, Null once acknowledged
    fetch,            \* the requests of the running load, by call site
    pending,          \* requests in flight that user taps started
    lastSettled,      \* outcome (and check-in or eligibility body) of the latest settled tap request
    userAirdrops,     \* MyAirdrops: useState([])
    airdropDetails,   \* MyAirdrops: useState({})
    data,             \* loadUserAirdrops: const data
    details,          \* loadUserAirdrops: const details
    detailFetch,      \* loadUserAirdrops: one detail request per element of data
    storesDone,       \* number of calls of setAirdropDetails
    airdrops,         \* Index: useState([])
    user,             \* Index, Profile: useState(null)
    now,              \* the device clock
    tzOffset,         \* the device time zone
    id,               \* AirdropDetail: useLocalSearchParams().id
    airdrop,          \* AirdropDetail: useState(null)
    tracking,         \* AirdropDetail: useState(false)
    completedTasks,   \* AirdropDetail: useState([])
    walletAddress,    \* AirdropDetail: useState('')
    eligibilityResult,      \* AirdropDetail: useState(null)
    checkingEligibility,    \* AirdropDetail: useState(false)
    showEligibilityModal,   \* AirdropDetail: useState(false)
    fnIn,             \* arguments of a function under test
    fnOut             \* its result

commonVars  == <<screen, loading, refreshing, selectedFilter, loadsStarted, alert,
                 fetch, pending, lastSettled>>
trackedVars == <<userAirdrops, airdropDetails, data, details, detailFetch, storesDone>>
userVars    == <<airdrops, user>>
clockVars   == <<now, tzOffset>>
detailVars  == <<id, airdrop, tracking, completedTasks, walletAddress,
                 eligibilityResult, checkingEligibility, showEligibilityModal>>
fnVars      == <<fnIn, fnOut>>

vars == <<commonVars, trackedVars, userVars, clockVars, detailVars, fnVars>>

NoFetch == [airdrops |-> "none", user |-> "none", list |-> "none",
            airdrop |-> "none", status |-> "none"]

NoPending == [checkin |-> 0, track |-> 0, complete |-> [t \in TaskIds |-> 0],
              eligibility |-> << >>]

\* the state of a component after its first render, before its effect runs
Constructed ==
    /\ loading = TRUE
    /\ refreshing = FALSE
    /\ selectedFilter = "all"
    /\ loadsStarted = 0
    /\ alert = Null
    /\ fetch = NoFetch
    /\ pending = NoPending
    /\ lastSettled = Null
    /\ userAirdrops = << >>
    /\ airdropDetails = EmptyDict
    /\ data = << >>
    /\ details = EmptyDict
    /\ detailFetch = << >>
    /\ storesDone = 0
    /\ airdrops = << >>
    /\ user = Null
    /\ airdrop = Null
    /\ tracking = FALSE
    /\ completedTasks = << >>
    /\ walletAddress = << >>
    /\ eligibilityResult = Null
    /\ checkingEligibility = FALSE
    /\ showEligibilityModal = FALSE

Screens == {"home", "tracked", "profile", "detail"}

\* the route parameter: the id of an airdrop (the first, the ids being
\* interchangeable), or none
RouteIds == {Undefined, [param |-> 1]}

InitOn(screens) ==
    /\ screen \in screens
    /\ Constructed
    /\ now = 0
    /\ tzOffset \in (IF screen = "profile" THEN TzOffsets ELSE {0})
    /\ id \in (IF screen = "detail" THEN RouteIds ELSE {Undefined})
    /\ fnIn = Null
    /\ fnOut = Null

Init == InitOn(Screens)

\* the user acknowledges the dialog on display
DismissAlert ==
    /\ alert # Null
    /\ alert' = Null
    /\ UNCHANGED <<screen, loading, refreshing, selectedFilter, loadsStarted,
                   fetch, pending, lastSettled>>
    /\ UNCHANGED <<trackedVars, userVars, clockVars, detailVars, fnVars>>

\* ================================================== MyAirdrops (part_000)

\* a join that continues as soon as one detail request has settled
DetailsJoined_First(fs) == fs = << >> \/ \E i \in 1..Len(fs) : fs[i] # "inflight"

\* Promise.all over the detail requests: fulfilled once none is in flight
\* (the mapped functions catch their own errors and never reject)
DetailsJoined(fs) == \A i \in 1..Len(fs) : fs[i] # "inflight"

\* a mapped function whose failure discards what the batch has collected
DetailsAfter_Abort(d, key, outcome) ==
    IF outcome = "ok" THEN Put(d, key, AirdropBody(key)) ELSE EmptyDict

\* a mapped function that stores an entry whatever the outcome
DetailsAfter_Always(d, key, outcome) == Put(d, key, AirdropBody(key))

\* the body of one mapped function once its request has settled
DetailsAfter(d, key, outcome) ==
    IF outcome = "ok" THEN Put(d, key, AirdropBody(key)) ELSE d

\* useEffect(() => { loadUserAirdrops() }, []): runs to the first await
TrackedMount ==
    /\ screen = "tracked"
    /\ loadsStarted = 0
    /\ loadsStarted' = 1
    /\ fetch' = [fetch EXCEPT !.list = "inflight"]
    /\ UNCHANGED <<screen, loading, refreshing, selectedFilter, alert, pending,
                   lastSettled>>
    /\ UNCHANGED <<trackedVars, userVars, clockVars, detailVars, fnVars>>

\* handleRefresh, offered by the RefreshControl of the loaded view, which
\* does not fire again while it shows refreshing
TrackedRefresh ==
    /\ screen = "tracked"
    /\ ~loading
    /\ ~refreshing
    /\ loadsStarted < MaxLoads
    /\ refreshing' = TRUE
    /\ loadsStarted' = loadsStarted + 1
    /\ fetch' = [fetch EXCEPT !.list = "inflight"]
    /\ UNCHANGED <<screen, loading, selectedFilter, alert, pending, lastSettled>>
    /\ UNCHANGED <<trackedVars, userVars, clockVars, detailVars, fnVars>>

\* the tracked-list request settles; with an empty list Promise.all is
\* fulfilled at once.  setRefreshing(false) is handleRefresh's continuation
\* (refreshing is already false in the mount's load).
TrackedListSettles ==
    /\ screen = "tracked"
    /\ fetch.list = "inflight"
    /\ \E o \in Outcomes :
        /\ fetch' = [fetch EXCEPT !.list = o]
        /\ IF o = "ok"
           THEN \E l \in TrackedLists :
                  /\ data' = l
                  /\ userAirdrops' = l
                  /\ details' = EmptyDict
                  /\ detailFetch' = [i \in 1..Len(l) |-> "inflight"]
                  /\ IF DetailsJoined(detailFetch')
                     THEN /\ airdropDetails' = details'
                          /\ storesDone' = storesDone + 1
                          /\ loading' = FALSE
                          /\ refreshing' = FALSE
                     ELSE UNCHANGED <<airdropDetails, storesDone, loading, refreshing>>
           ELSE /\ loading' = FALSE
                /\ refreshing' = FALSE
                /\ UNCHANGED trackedVars
    /\ UNCHANGED <<screen, selectedFilter, loadsStarted, alert, pending, lastSettled>>
    /\ UNCHANGED <<userVars, clockVars, detailVars, fnVars>>

\* one detail request settles; the last one lets Promise.all continue
TrackedDetailSettles ==
    /\ screen = "tracked"
    /\ \E i \in 1..Len(detailFetch), o \in Outcomes :
        /\ detailFetch[i] = "inflight"
        /\ detailFetch' = [detailFetch EXCEPT ![i] = o]
        /\ details' = DetailsAfter(details, data[i].airdrop_id, o)
        /\ IF DetailsJoined(detailFetch')
           THEN /\ airdropDetails' = details'
                /\ storesDone' = storesDone + 1
                /\ loading' = FALSE
                /\ refreshing' = FALSE
           ELSE UNCHANGED <<airdropDetails, storesDone, loading, refreshing>>
    /\ UNCHANGED <<userAirdrops, data>>
    /\ UNCHANGED <<screen, selectedFilter, loadsStarted, alert, fetch, pending,
                   lastSettled>>
    /\ UNCHANGED <<userVars, clockVars, detailVars, fnVars>>

\* a filter chip of MyAirdrops
TrackedSetFilter ==
    /\ screen = "tracked"
    /\ ~loading
    /\ \E f \in TrackedFilters : selectedFilter' = f
    /\ UNCHANGED <<screen, loading, refreshing, loadsStarted, alert, fetch, pending,
                   lastSettled>>
    /\ UNCHANGED <<trackedVars, userVars, clockVars, detailVars, fnVars>>

\* ------------------------------------------- MyAirdrops: what is rendered

\* a predicate that gives 'all' no special meaning
StatusMatches_NoAll(item, f) == item.status = f

\* the predicate handed to Array.prototype.filter
StatusMatches(item, f) == IF f = "all" THEN TRUE ELSE item.status = f

\* Array.prototype.filter with that predicate: visits the elements in order
\* and appends the ones that pass
RECURSIVE FilterByStatus(_, _)
FilterByStatus(list, f) ==
    IF list = << >> THEN << >>
    ELSE LET rest == FilterByStatus(Tail(list), f)
         IN  IF StatusMatches(Head(list), f) THEN <<Head(list)>> \o rest ELSE rest

\* const filteredAirdrops = userAirdrops.filter(...)
TrackedFilteredAirdrops == FilterByStatus(userAirdrops, selectedFilter)

\* a card looked up under the id of the tracking record
renderAirdropCard_ById(userAirdrop) ==
    LET found == Lookup(airdropDetails, userAirdrop.id)
    IN  IF ~Truthy(found) THEN Null
        ELSE [key |-> userAirdrop.id, airdrop |-> found, userAirdrop |-> userAirdrop]

\* renderAirdropCard: null when the dictionary has no airdrop for the status
renderAirdropCard(userAirdrop) ==
    LET found == Lookup(airdropDetails, userAirdrop.airdrop_id)
    IN  IF ~Truthy(found) THEN Null
        ELSE [key |-> userAirdrop.id, airdrop |-> found, userAirdrop |-> userAirdrop]

\* {list.map(renderAirdropCard)}: React renders nothing for a null child
RECURSIVE RenderCards(_)
RenderCards(list) ==
    IF list = << >> THEN << >>
    ELSE LET card == renderAirdropCard(Head(list))
         IN  IF card = Null THEN RenderCards(Tail(list))
             ELSE <<card>> \o RenderCards(Tail(list))

\* the cards of the list section of MyAirdrops
TrackedCards ==
    IF loading \/ Len(TrackedFilteredAirdrops) = 0 THEN << >>
    ELSE RenderCards(TrackedFilteredAirdrops)

\* the three numbers of the header of MyAirdrops
CountStatus(list, s) == Len(SelectSeq(list, LAMBDA ua : ua.status = s))

\* a total taken from the filtered list
HeaderTotal_Filtered == Len(TrackedFilteredAirdrops)

HeaderTotal == Len(userAirdrops)

HeaderCompleted == CountStatus(userAirdrops, "completed")

\* an in-progress count that repeats the completed filter
HeaderInProgress_Completed == CountStatus(userAirdrops, "completed")

HeaderInProgress == CountStatus(userAirdrops, "in_progress")

\* the number in the section title 'Tracked Airdrops (N)'
TrackedTitleCount == Len(TrackedFilteredAirdrops)

\* the list section shows the title and the cards rather than the empty view
TrackedListShown == screen = "tracked" /\ ~loading /\ Len(TrackedFilteredAirdrops) # 0

\* ================================================== Index (tabs/_layout.tsx)

\* const filteredAirdrops = airdrops.filter(...)
HomeFilteredAirdrops == FilterByStatus(airdrops, selectedFilter)

\* loadInitialData up to its await: fetchAirdrops() and fetchUser() each run
\* to their first await
StartLoadInitialData ==
    /\ loadsStarted' = loadsStarted + 1
    /\ fetch' = [fetch EXCEPT !.airdrops = "inflight", !.user = "inflight"]

\* a join that gives up waiting once one of the two requests has settled
InitialDataJoined_Any(f) == f.airdrops # "inflight" \/ f.user # "inflight"

\* Promise.all([fetchAirdrops(), fetchUser()]): neither promise rejects
InitialDataJoined(f) == f.airdrops # "inflight" /\ f.user # "inflight"

\* useEffect(() => { loadInitialData() }, [])
HomeMount ==
    /\ screen = "home"
    /\ loadsStarted = 0
    /\ StartLoadInitialData
    /\ UNCHANGED <<screen, loading, refreshing, selectedFilter, alert, pending,
                   lastSettled>>
    /\ UNCHANGED <<trackedVars, userVars, clockVars, detailVars, fnVars>>

\* handleRefresh of Index
HomeRefresh ==
    /\ screen = "home"
    /\ ~loading
    /\ ~refreshing
    /\ loadsStarted < MaxLoads
    /\ refreshing' = TRUE
    /\ StartLoadInitialData
    /\ UNCHANGED <<screen, loading, selectedFilter, alert, pending, lastSettled>>
    /\ UNCHANGED <<trackedVars, userVars, clockVars, detailVars, fnVars>>

\* the continuation of loadInitialData (and of handleRefresh) once both
\* requests have settled
AfterInitialData(f) ==
    IF InitialDataJoined(f)
    THEN loading' = FALSE /\ refreshing' = FALSE
    ELSE UNCHANGED <<loading, refreshing>>

\* fetchAirdrops: the catalog request settles
HomeAirdropsSettles ==
    /\ screen = "home"
    /\ fetch.airdrops = "inflight"
    /\ \E o \in Outcomes :
        /\ fetch' = [fetch EXCEPT !.airdrops = o]
        /\ IF o = "ok"
           THEN \E l \in CatalogLists : airdrops' = l
           ELSE UNCHANGED airdrops
    /\ AfterInitialData(fetch')
    /\ UNCHANGED <<screen, selectedFilter, loadsStarted, alert, pending, lastSettled,
                   user>>
    /\ UNCHANGED <<trackedVars, clockVars, detailVars, fnVars>>

\* a user request whose result is stored only if the catalog request has
\* not failed
HomeUserSettles_Dependent ==
    /\ screen = "home"
    /\ fetch.user = "inflight"
    /\ \E o \in Outcomes :
        /\ fetch' = [fetch EXCEPT !.user = o]
        /\ IF o = "ok" /\ fetch.airdrops \notin {"nonok", "threw"}
           THEN \E u \in UserBodies : user' = u
           ELSE UNCHANGED user
    /\ AfterInitialData(fetch')
    /\ UNCHANGED <<screen, selectedFilter, loadsStarted, alert, pending, lastSettled,
                   airdrops>>
    /\ UNCHANGED <<trackedVars, clockVars, detailVars, fnVars>>

\* fetchUser: the user request settles
HomeUserSettles ==
    /\ screen = "home"
    /\ fetch.user = "inflight"
    /\ \E o \in Outcomes :
        /\ fetch' = [fetch EXCEPT !.user = o]
        /\ IF o = "ok"
           THEN \E u \in UserBodies : user' = u
           ELSE UNCHANGED user
    /\ AfterInitialData(fetch')
    /\ UNCHANGED <<screen, selectedFilter, loadsStarted, alert, pending, lastSettled,
                   airdrops>>
    /\ UNCHANGED <<trackedVars, clockVars, detailVars, fnVars>>

\* a filter chip of Index
HomeSetFilter ==
    /\ screen = "home"
    /\ ~loading
    /\ \E f \in CatalogFilters : selectedFilter' = f
    /\ UNCHANGED <<screen, loading, refreshing, loadsStarted, alert, fetch, pending,
                   lastSettled>>
    /\ UNCHANGED <<trackedVars, userVars, clockVars, detailVars, fnVars>>

\* a dialog text that never uses the body
MessageOr_Fallback(body, fallback) == fallback

\* error.message || 'Something went wrong'
MessageOr(body, fallback) ==
    IF "message" \in DOMAIN body /\ body.message # "" THEN body.message ELSE fallback

\* the dialog raised by handleDailyCheckin for a settled check-in request;
\* reading a non-OK body that is not JSON rejects and lands in the catch
CheckinDialog(o, body) ==
    IF o = "ok"
    THEN [title |-> "Check-in Successful!", message |-> body]
    ELSE IF o = "nonok" /\ "notJson" \notin DOMAIN body
    THEN [title |-> "Check-in Failed", message |-> MessageOr(body, "Something went wrong")]
    ELSE [title |-> "Error", message |-> "Failed to complete check-in"]

\* the bodies a check-in response of outcome o can carry
CheckinBodies(o) ==
    IF o = "ok" THEN CheckinResults ELSE IF o = "nonok" THEN CheckinErrors ELSE {Null}

\* a Check-in button that ignores taps while a check-in request is in flight
HomeCheckinTap_Debounced ==
    /\ screen = "home"
    /\ ~loading
    /\ Truthy(user)
    /\ pending.checkin = 0
    /\ pending' = [pending EXCEPT !.checkin = @ + 1]
    /\ UNCHANGED <<screen, loading, refreshing, selectedFilter, loadsStarted, alert,
                   fetch, lastSettled>>
    /\ UNCHANGED <<trackedVars, userVars, clockVars, detailVars, fnVars>>

\* the Check-in button of the header, rendered when user is set
HomeCheckinTap ==
    /\ screen = "home"
    /\ ~loading
    /\ Truthy(user)
    /\ pending.checkin < MaxPending
    /\ pending' = [pending EXCEPT !.checkin = @ + 1]
    /\ UNCHANGED <<screen, loading, refreshing, selectedFilter, loadsStarted, alert,
                   fetch, lastSettled>>
    /\ UNCHANGED <<trackedVars, userVars, clockVars, detailVars, fnVars>>

\* an update that takes the points and leaves the streak for later
HomeUserAfterCheckin_PointsOnly(prev, result) ==
    IF Truthy(prev)
    THEN [prev EXCEPT !.total_points = result.total_points]
    ELSE Null

\* setUser(prev => prev ? {...prev, total_points, daily_streak} : null)
HomeUserAfterCheckin(prev, result) ==
    IF Truthy(prev)
    THEN [prev EXCEPT !.total_points = result.total_points,
                      !.daily_streak = result.streak]
    ELSE Null

\* handleDailyCheckin of Index: a check-in request settles
HomeCheckinSettles ==
    /\ screen = "home"
    /\ pending.checkin > 0
    /\ pending' = [pending EXCEPT !.checkin = @ - 1]
    /\ \E o \in Outcomes : \E body \in CheckinBodies(o) :
        /\ lastSettled' = [outcome |-> o, body |-> body]
        /\ user' = IF o = "ok" THEN HomeUserAfterCheckin(user, body) ELSE user
        /\ alert' = CheckinDialog(o, body)
    /\ UNCHANGED <<screen, loading, refreshing, selectedFilter, loadsStarted, fetch,
                   airdrops>>
    /\ UNCHANGED <<trackedVars, clockVars, detailVars, fnVars>>


\* ======================================================= Profile (part_001)

\* Date.prototype.toDateString: the calendar date of an instant in the
\* device's time zone, as the number of the local day
toDateString(t) == (t + tzOffset) \div MinutesPerDay

\* a rolling 24-hour cooldown instead of the date comparison
canCheckinToday_Cooldown(u, t) ==
    IF ~Truthy(u) THEN TRUE
    ELSE IF ~Truthy(u.last_checkin) THEN TRUE
    ELSE t - u.last_checkin.time >= MinutesPerDay

\* canCheckinToday, with new Date() read as t
canCheckinToday(u, t) ==
    IF ~Truthy(u) THEN TRUE
    ELSE IF ~Truthy(u.last_checkin) THEN TRUE
    ELSE toDateString(u.last_checkin.time) # toDateString(t)

\* useEffect(() => { loadUserData() }, [])
ProfileMount ==
    /\ screen = "profile"
    /\ loadsStarted = 0
    /\ loadsStarted' = 1
    /\ fetch' = [fetch EXCEPT !.user = "inflight"]
    /\ UNCHANGED <<screen, loading, refreshing, selectedFilter, alert, pending,
                   lastSettled>>
    /\ UNCHANGED <<trackedVars, userVars, clockVars, detailVars, fnVars>>

\* loadUserData: the user request settles
ProfileUserSettles ==
    /\ screen = "profile"
    /\ fetch.user = "inflight"
    /\ \E o \in Outcomes :
        /\ fetch' = [fetch EXCEPT !.user = o]
        /\ IF o = "ok"
           THEN \E u \in UserBodies : user' = u
           ELSE UNCHANGED user
    /\ loading' = FALSE
    /\ UNCHANGED <<screen, refreshing, selectedFilter, loadsStarted, alert, pending,
                   lastSettled, airdrops>>
    /\ UNCHANGED <<trackedVars, clockVars, detailVars, fnVars>>

\* the check-in button of the loaded profile, disabled unless canCheckinToday()
ProfileCheckinTap ==
    /\ screen = "profile"
    /\ ~loading
    /\ Truthy(user)
    /\ canCheckinToday(user, now)
    /\ pending.checkin < MaxPending
    /\ pending' = [pending EXCEPT !.checkin = @ + 1]
    /\ UNCHANGED <<screen, loading, refreshing, selectedFilter, loadsStarted, alert,
                   fetch, lastSettled>>
    /\ UNCHANGED <<trackedVars, userVars, clockVars, detailVars, fnVars>>

\* an update that, like the one of Index, leaves last_checkin alone
ProfileUserAfterCheckin_NoStamp(prev, result, t) ==
    IF Truthy(prev)
    THEN [prev EXCEPT !.total_points = result.total_points,
                      !.daily_streak = result.streak]
    ELSE Null

\* setUser(prev => prev ? {...prev, total_points, daily_streak, last_checkin} : null)
ProfileUserAfterCheckin(prev, result, t) ==
    IF Truthy(prev)
    THEN [prev EXCEPT !.total_points = result.total_points,
                      !.daily_streak = result.streak,
                      !.last_checkin = Instant(t)]
    ELSE Null

\* handleDailyCheckin of Profile: a check-in request settles
ProfileCheckinSettles ==
    /\ screen = "profile"
    /\ pending.checkin > 0
    /\ pending' = [pending EXCEPT !.checkin = @ - 1]
    /\ \E o \in Outcomes : \E body \in CheckinBodies(o) :
        /\ lastSettled' = [outcome |-> o, body |-> body]
        /\ user' = IF o = "ok" THEN ProfileUserAfterCheckin(user, body, now) ELSE user
        /\ alert' = CheckinDialog(o, body)
    /\ UNCHANGED <<screen, loading, refreshing, selectedFilter, loadsStarted, fetch,
                   airdrops>>
    /\ UNCHANGED <<trackedVars, clockVars, detailVars, fnVars>>

\* time passes on the device
Tick ==
    /\ screen = "profile"
    /\ \E t \in SampleInstants : t > now /\ now' = t
    /\ UNCHANGED tzOffset
    /\ UNCHANGED <<commonVars, trackedVars, userVars, detailVars, fnVars>>


\* ================================================ AirdropDetail ([id].tsx)

\* String.prototype.trim on a string given as its sequence of characters
RECURSIVE TrimStart(_)
TrimStart(s) == IF s # << >> /\ Head(s) = " " THEN TrimStart(Tail(s)) ELSE s

RECURSIVE TrimEnd(_)
TrimEnd(s) ==
    IF s # << >> /\ s[Len(s)] = " " THEN TrimEnd(SubSeq(s, 1, Len(s) - 1)) ELSE s

\* a trim that removes nothing
Trim_Identity(s) == s

Trim(s) == TrimEnd(TrimStart(s))

\* what the user can type into the wallet input
Wallets == {<< >>, <<" ">>, <<" ", "w", " ">>}

\* completed_tasks of a tracking record: task ids without repetition
TaskLists == {l \in SeqsUpTo(TaskIds, MaxTasks) : \A i, j \in 1..Len(l) : i # j => l[i] # l[j]}

\* GET /api/users/{userId}/airdrops as AirdropDetail reads it
StatusLists ==
    {l \in SeqsUpTo({[airdrop_id |-> a, completed_tasks |-> c] :
                        a \in AirdropIds, c \in TaskLists}, MaxTracked) : NoDup(l)}

\* POST /api/eligibility/check, OK body
EligibilityBodies(wallet) ==
    {[is_eligible |-> e, wallet_address |-> wallet] : e \in BOOLEAN}

\* Array.prototype.find
RECURSIVE Find(_, _)
Find(list, key) ==
    IF list = << >> THEN Undefined
    ELSE IF Head(list).airdrop_id = key THEN Head(list)
    ELSE Find(Tail(list), key)

\* a membership test that finds nothing
Includes_Never(list, x) == FALSE

\* completedTasks.includes(task.id)
Includes(list, x) == \E i \in 1..Len(list) : list[i] = x

\* requests in flight that taps on AirdropDetail started
PendingTotal(p) ==
    LET RECURSIVE Sum(_)
        Sum(S) == IF S = {} THEN 0
                  ELSE LET t == CHOOSE x \in S : TRUE IN p.complete[t] + Sum(S \ {t})
    IN  p.checkin + p.track + Sum(TaskIds) + Len(p.eligibility)

\* a mount effect that ends the spinner when there is no id to load
DetailMount_ClearsLoading ==
    /\ screen = "detail"
    /\ loadsStarted = 0
    /\ loadsStarted' = 1
    /\ fetch' = IF Truthy(id)
                THEN [fetch EXCEPT !.airdrop = "inflight", !.status = "inflight"]
                ELSE fetch
    /\ loading' = IF Truthy(id) THEN loading ELSE FALSE
    /\ UNCHANGED <<screen, refreshing, selectedFilter, alert, pending, lastSettled>>
    /\ UNCHANGED <<trackedVars, userVars, clockVars, detailVars, fnVars>>

\* useEffect(() => { if (id) { fetchAirdropDetails(); fetchUserStatus() } }, [id])
DetailMount ==
    /\ screen = "detail"
    /\ loadsStarted = 0
    /\ loadsStarted' = 1
    /\ fetch' = IF Truthy(id)
                THEN [fetch EXCEPT !.airdrop = "inflight", !.status = "inflight"]
                ELSE fetch
    /\ UNCHANGED <<screen, loading, refreshing, selectedFilter, alert, pending,
                   lastSettled>>
    /\ UNCHANGED <<trackedVars, userVars, clockVars, detailVars, fnVars>>

\* the dialog raised by fetchAirdropDetails
AirdropDialog(o) ==
    IF o = "ok" THEN alert
    ELSE IF o = "nonok" THEN [title |-> "Error", message |-> "Failed to load airdrop details"]
    ELSE [title |-> "Error", message |-> "Network error occurred"]

\* fetchAirdropDetails: the airdrop request settles
DetailAirdropSettles ==
    /\ screen = "detail"
    /\ fetch.airdrop = "inflight"
    /\ \E o \in Outcomes :
        /\ fetch' = [fetch EXCEPT !.airdrop = o]
        /\ airdrop' = IF o = "ok" THEN AirdropBody(id.param) ELSE airdrop
        /\ alert' = AirdropDialog(o)
    /\ loading' = FALSE
    /\ UNCHANGED <<screen, refreshing, selectedFilter, loadsStarted, pending, lastSettled>>
    /\ UNCHANGED <<id, tracking, completedTasks, walletAddress, eligibilityResult,
                   checkingEligibility, showEligibilityModal>>
    /\ UNCHANGED <<trackedVars, userVars, clockVars, fnVars>>

\* fetchUserStatus: the tracked-list request settles
DetailStatusSettles ==
    /\ screen = "detail"
    /\ fetch.status = "inflight"
    /\ \E o \in Outcomes :
        /\ fetch' = [fetch EXCEPT !.status = o]
        /\ IF o = "ok"
           THEN \E l \in StatusLists :
                  LET currentAirdrop == Find(l, id.param)
                  IN  IF Truthy(currentAirdrop)
                      THEN /\ tracking' = TRUE
                           /\ completedTasks' = currentAirdrop.completed_tasks
                      ELSE UNCHANGED <<tracking, completedTasks>>
           ELSE UNCHANGED <<tracking, completedTasks>>
    /\ UNCHANGED <<screen, loading, refreshing, selectedFilter, loadsStarted, alert,
                   pending, lastSettled>>
    /\ UNCHANGED <<id, airdrop, walletAddress, eligibilityResult, checkingEligibility,
                   showEligibilityModal>>
    /\ UNCHANGED <<trackedVars, userVars, clockVars, fnVars>>

\* the loaded view of an airdrop is on display
DetailShown == screen = "detail" /\ ~loading /\ Truthy(airdrop)

\* the 'Airdrop not found' view is on display
DetailNotFoundShown == screen = "detail" /\ ~loading /\ ~Truthy(airdrop)

\* the Track button, rendered while tracking is false
DetailTrackTap ==
    /\ DetailShown
    /\ ~tracking
    /\ PendingTotal(pending) < MaxPending
    /\ pending' = [pending EXCEPT !.track = @ + 1]
    /\ UNCHANGED <<screen, loading, refreshing, selectedFilter, loadsStarted, alert,
                   fetch, lastSettled>>
    /\ UNCHANGED <<trackedVars, userVars, clockVars, detailVars, fnVars>>

\* a handler that only logs a non-OK response
TrackDialog_Silent(o) ==
    IF o = "ok" THEN [title |-> "Success", message |-> "Airdrop is now being tracked!"]
    ELSE IF o = "nonok" THEN alert
    ELSE [title |-> "Error", message |-> "Network error occurred"]

\* the dialog raised by handleTrackAirdrop
TrackDialog(o) ==
    IF o = "ok" THEN [title |-> "Success", message |-> "Airdrop is now being tracked!"]
    ELSE IF o = "nonok" THEN [title |-> "Error", message |-> "Failed to track airdrop"]
    ELSE [title |-> "Error", message |-> "Network error occurred"]

\* handleTrackAirdrop: a track request settles
DetailTrackSettles ==
    /\ screen = "detail"
    /\ pending.track > 0
    /\ pending' = [pending EXCEPT !.track = @ - 1]
    /\ \E o \in Outcomes :
        /\ lastSettled' = [outcome |-> o]
        /\ tracking' = IF o = "ok" THEN TRUE ELSE tracking
        /\ alert' = TrackDialog(o)
    /\ UNCHANGED <<screen, loading, refreshing, selectedFilter, loadsStarted, fetch>>
    /\ UNCHANGED <<id, airdrop, completedTasks, walletAddress, eligibilityResult,
                   checkingEligibility, showEligibilityModal>>
    /\ UNCHANGED <<trackedVars, userVars, clockVars, fnVars>>

\* the complete button of a task, rendered while tracking and disabled once
\* the task is in completedTasks
DetailCompleteTap ==
    /\ DetailShown
    /\ tracking
    /\ PendingTotal(pending) < MaxPending
    /\ \E t \in TaskIds :
        /\ ~Includes(completedTasks, t)
        /\ pending' = [pending EXCEPT !.complete[t] = @ + 1]
    /\ UNCHANGED <<screen, loading, refreshing, selectedFilter, loadsStarted, alert,
                   fetch, lastSettled>>
    /\ UNCHANGED <<trackedVars, userVars, clockVars, detailVars, fnVars>>

\* a handler that reports success whatever the response
CompleteDialog_Success(o) == [title |-> "Task Completed!", message |-> "Progress"]

\* the dialog raised by handleCompleteTask
CompleteDialog(o) ==
    IF o = "ok" THEN [title |-> "Task Completed!", message |-> "Progress"]
    ELSE IF o = "nonok" THEN [title |-> "Error", message |-> "Failed to complete task"]
    ELSE [title |-> "Error", message |-> "Network error occurred"]

\* an update that puts the new id first
CompletedAfter_Prepend(prev, taskId) == <<taskId>> \o prev

\* setCompletedTasks(prev => [...prev, taskId])
CompletedAfter(prev, taskId) == Append(prev, taskId)

\* handleCompleteTask: a complete-task request settles
DetailCompleteSettles ==
    /\ screen = "detail"
    /\ \E t \in TaskIds, o \in Outcomes :
        /\ pending.complete[t] > 0
        /\ pending' = [pending EXCEPT !.complete[t] = @ - 1]
        /\ lastSettled' = [outcome |-> o]
        /\ completedTasks' = IF o = "ok" THEN CompletedAfter(completedTasks, t)
                             ELSE completedTasks
        /\ alert' = CompleteDialog(o)
    /\ UNCHANGED <<screen, loading, refreshing, selectedFilter, loadsStarted, fetch>>
    /\ UNCHANGED <<id, airdrop, tracking, walletAddress, eligibilityResult,
                   checkingEligibility, showEligibilityModal>>
    /\ UNCHANGED <<trackedVars, userVars, clockVars, fnVars>>

\* the Check Eligibility button opens the modal; its close icon closes it
DetailToggleModal ==
    /\ DetailShown
    /\ showEligibilityModal' = ~showEligibilityModal
    /\ UNCHANGED <<id, airdrop, tracking, completedTasks, walletAddress,
                   eligibilityResult, checkingEligibility>>
    /\ UNCHANGED <<commonVars, trackedVars, userVars, clockVars, fnVars>>

\* onChangeText={setWalletAddress}
DetailTypeWallet ==
    /\ DetailShown
    /\ showEligibilityModal
    /\ \E w \in Wallets : walletAddress' = w
    /\ UNCHANGED <<id, airdrop, tracking, completedTasks, eligibilityResult,
                   checkingEligibility, showEligibilityModal>>
    /\ UNCHANGED <<commonVars, trackedVars, userVars, clockVars, fnVars>>

\* a check button that is never disabled
DetailCheckEligibility_NoFlag ==
    /\ DetailShown
    /\ showEligibilityModal
    /\ IF Trim(walletAddress) = << >>
       THEN /\ alert' = [title |-> "Error", message |-> "Please enter a wallet address"]
            /\ UNCHANGED <<pending, checkingEligibility>>
       ELSE /\ PendingTotal(pending) < MaxPending
            /\ checkingEligibility' = TRUE
            /\ pending' = [pending EXCEPT
                             !.eligibility = Append(@, Trim(walletAddress))]
            /\ UNCHANGED alert
    /\ UNCHANGED <<screen, loading, refreshing, selectedFilter, loadsStarted, fetch,
                   lastSettled>>
    /\ UNCHANGED <<id, airdrop, tracking, completedTasks, walletAddress,
                   eligibilityResult, showEligibilityModal>>
    /\ UNCHANGED <<trackedVars, userVars, clockVars, fnVars>>

\* checkEligibility up to its await; the button is disabled while
\* checkingEligibility
DetailCheckEligibility ==
    /\ DetailShown
    /\ showEligibilityModal
    /\ ~checkingEligibility
    /\ IF Trim(walletAddress) = << >>
       THEN /\ alert' = [title |-> "Error", message |-> "Please enter a wallet address"]
            /\ UNCHANGED <<pending, checkingEligibility>>
       ELSE /\ PendingTotal(pending) < MaxPending
            /\ checkingEligibility' = TRUE
            /\ pending' = [pending EXCEPT
                             !.eligibility = Append(@, Trim(walletAddress))]
            /\ UNCHANGED alert
    /\ UNCHANGED <<screen, loading, refreshing, selectedFilter, loadsStarted, fetch,
                   lastSettled>>
    /\ UNCHANGED <<id, airdrop, tracking, completedTasks, walletAddress,
                   eligibilityResult, showEligibilityModal>>
    /\ UNCHANGED <<trackedVars, userVars, clockVars, fnVars>>

\* the dialog raised by checkEligibility for a settled request
EligibilityDialog(o, body) ==
    IF o = "ok"
    THEN [title |-> IF body.is_eligible THEN "Eligible!" ELSE "Not Eligible",
          message |-> "result"]
    ELSE IF o = "nonok" THEN [title |-> "Error", message |-> "Failed to check eligibility"]
    ELSE [title |-> "Error", message |-> "Network error occurred"]

\* a handler whose failed check forgets the result of the check before it
DetailEligibilitySettles_Forgets ==
    /\ screen = "detail"
    /\ \E i \in 1..Len(pending.eligibility), o \in Outcomes :
        LET wallet == pending.eligibility[i]
            others == [k \in 1..(Len(pending.eligibility) - 1) |->
                         IF k < i THEN pending.eligibility[k]
                         ELSE pending.eligibility[k + 1]]
        IN  /\ pending' = [pending EXCEPT !.eligibility = others]
            /\ IF o = "ok"
               THEN \E body \in EligibilityBodies(wallet) :
                      /\ lastSettled' = [outcome |-> o, body |-> body]
                      /\ eligibilityResult' = body
                      /\ showEligibilityModal' = FALSE
                      /\ alert' = EligibilityDialog(o, body)
               ELSE /\ lastSettled' = [outcome |-> o, body |-> Null]
                    /\ alert' = EligibilityDialog(o, Null)
                    /\ eligibilityResult' = Null
                    /\ UNCHANGED showEligibilityModal
    /\ checkingEligibility' = FALSE
    /\ UNCHANGED <<screen, loading, refreshing, selectedFilter, loadsStarted, fetch>>
    /\ UNCHANGED <<id, airdrop, tracking, completedTasks, walletAddress>>
    /\ UNCHANGED <<trackedVars, userVars, clockVars, fnVars>>

\* checkEligibility: an eligibility request settles
DetailEligibilitySettles ==
    /\ screen = "detail"
    /\ \E i \in 1..Len(pending.eligibility), o \in Outcomes :
        LET wallet == pending.eligibility[i]
            others == [k \in 1..(Len(pending.eligibility) - 1) |->
                         IF k < i THEN pending.eligibility[k]
                         ELSE pending.eligibility[k + 1]]
        IN  /\ pending' = [pending EXCEPT !.eligibility = others]
            /\ IF o = "ok"
               THEN \E body \in EligibilityBodies(wallet) :
                      /\ lastSettled' = [outcome |-> o, body |-> body]
                      /\ eligibilityResult' = body
                      /\ showEligibilityModal' = FALSE
                      /\ alert' = EligibilityDialog(o, body)
               ELSE /\ lastSettled' = [outcome |-> o, body |-> Null]
                    /\ alert' = EligibilityDialog(o, Null)
                    /\ UNCHANGED <<eligibilityResult, showEligibilityModal>>
    /\ checkingEligibility' = FALSE
    /\ UNCHANGED <<screen, loading, refreshing, selectedFilter, loadsStarted, fetch>>
    /\ UNCHANGED <<id, airdrop, tracking, completedTasks, walletAddress>>
    /\ UNCHANGED <<trackedVars, userVars, clockVars, fnVars>>


\* ================================================= functions under test

\* a warn tier that starts above 50
getProgressBarColor_Above(percentage) ==
    IF percentage = 100 THEN "success"
    ELSE IF percentage > 50 THEN "warning"
    ELSE "accent"

\* getProgressBarColor; the theme colours of MyAirdrops by name
getProgressBarColor(percentage) ==
    IF percentage = 100 THEN "success"
    ELSE IF percentage >= 50 THEN "warning"
    ELSE "accent"

\* a percentage derived from the tasks completed
CardProgress_Recomputed(card) ==
    (100 * Len(card.userAirdrop.completed_tasks)) \div Len(card.airdrop.tasks)

\* the percentage a card prints and gives its bar as width
CardProgress(card) == card.userAirdrop.progress_percentage

\* the line under the bar: "n of m tasks completed"
CardTasks(card) == <<Len(card.userAirdrop.completed_tasks), Len(card.airdrop.tasks)>>

\* what a card displays of the progress of its record
CardDisplay(card) ==
    [percent |-> CardProgress(card),
     color |-> getProgressBarColor(CardProgress(card)),
     tasks |-> CardTasks(card)]

\* the integer percentages
MaxPercent == 100
Percentages == 0..MaxPercent

FnConstructed ==
    /\ screen = "none"
    /\ Constructed
    /\ id = Undefined
    /\ fnOut = Null

\* getProgressBarColor over every integer percentage
InitProgress ==
    /\ FnConstructed
    /\ now = 0
    /\ tzOffset = 0
    /\ fnIn \in {[percentage |-> p] : p \in Percentages}

ApplyProgressBarColor ==
    /\ screen = "none"
    /\ "percentage" \in DOMAIN fnIn
    /\ fnOut = Null
    /\ fnOut' = [color |-> getProgressBarColor(fnIn.percentage)]
    /\ UNCHANGED <<commonVars, trackedVars, userVars, clockVars, detailVars, fnIn>>

SpecProgress == InitProgress /\ [][ApplyProgressBarColor]_vars

\* canCheckinToday over a user record, a clock reading and a time zone
InitCanCheckin ==
    /\ FnConstructed
    /\ now \in SampleInstants
    /\ tzOffset \in TzOffsets
    /\ fnIn \in {[user |-> u] :
                  u \in {Null} \cup
                        {[total_points |-> 10, daily_streak |-> 1, last_checkin |-> lc] :
                           lc \in {Undefined} \cup {Instant(t) : t \in SampleInstants}}}

ApplyCanCheckin ==
    /\ screen = "none"
    /\ "user" \in DOMAIN fnIn
    /\ fnOut = Null
    /\ fnOut' = [can |-> canCheckinToday(fnIn.user, now)]
    /\ UNCHANGED <<commonVars, trackedVars, userVars, clockVars, detailVars, fnIn>>

SpecCanCheckin == InitCanCheckin /\ [][ApplyCanCheckin]_vars


\* ---------------------------------------- status colours and status icons

\* a colour function of MyAirdrops whose default is the error colour
getStatusColor_ErrorDefault(status) ==
    IF status = "completed" THEN "success"
    ELSE IF status = "in_progress" THEN "warning"
    ELSE IF status = "not_started" THEN "textSecondary"
    ELSE "error"

\* getStatusColor of MyAirdrops; the theme colours by name
getStatusColor(status) ==
    IF status = "completed" THEN "success"
    ELSE IF status = "in_progress" THEN "warning"
    ELSE IF status = "not_started" THEN "textSecondary"
    ELSE "textSecondary"

\* getStatusIcon of MyAirdrops
getStatusIcon(status) ==
    IF status = "completed" THEN "checkmark-circle"
    ELSE IF status = "in_progress" THEN "time"
    ELSE IF status = "not_started" THEN "ellipse-outline"
    ELSE "ellipse-outline"

\* getStatusColor of Index
HomeGetStatusColor(status) ==
    IF status = "active" THEN "success"
    ELSE IF status = "upcoming" THEN "warning"
    ELSE IF status = "expired" THEN "error"
    ELSE "textSecondary"

\* getStatusColor of AirdropDetail
DetailGetStatusColor(status) ==
    IF status = "active" THEN "success"
    ELSE IF status = "upcoming" THEN "warning"
    ELSE IF status = "expired" THEN "error"
    ELSE "textSecondary"

\* the status values each switch names
KnownTrackStatuses   == {"completed", "in_progress", "not_started"}
KnownCatalogStatuses == {"active", "upcoming", "expired"}

\* status strings a backend can send: the known ones and strings that no
\* switch names (the comparison is ===, exact in case and spacing)
StatusStrings ==
    KnownTrackStatuses \cup KnownCatalogStatuses \cup
    {"", "paused", "ended", "cancelled", "pending", "live", "all", "default",
     "COMPLETED", "Completed", "completed ", " completed", "in-progress",
     "in progress", "IN_PROGRESS", "not started", "NOT_STARTED", "ACTIVE",
     "Active", "active ", "UPCOMING", "EXPIRED", "undefined", "null"}

InitStatus ==
    /\ FnConstructed
    /\ now = 0
    /\ tzOffset = 0
    /\ fnIn \in {[status |-> s] : s \in StatusStrings}

\* the status row of a card of MyAirdrops
ApplyTrackedStatus ==
    /\ screen = "none"
    /\ "status" \in DOMAIN fnIn
    /\ fnOut = Null
    /\ fnOut' = [site |-> "tracked", color |-> getStatusColor(fnIn.status),
                 icon |-> getStatusIcon(fnIn.status)]
    /\ UNCHANGED <<commonVars, trackedVars, userVars, clockVars, detailVars, fnIn>>

\* the status badge of a card of Index
ApplyHomeStatus ==
    /\ screen = "none"
    /\ "status" \in DOMAIN fnIn
    /\ fnOut = Null
    /\ fnOut' = [site |-> "home", color |-> HomeGetStatusColor(fnIn.status)]
    /\ UNCHANGED <<commonVars, trackedVars, userVars, clockVars, detailVars, fnIn>>

\* the status badge of AirdropDetail
ApplyDetailStatus ==
    /\ screen = "none"
    /\ "status" \in DOMAIN fnIn
    /\ fnOut = Null
    /\ fnOut' = [site |-> "detail", color |-> DetailGetStatusColor(fnIn.status)]
    /\ UNCHANGED <<commonVars, trackedVars, userVars, clockVars, detailVars, fnIn>>

NextStatus == ApplyTrackedStatus \/ ApplyHomeStatus \/ ApplyDetailStatus

SpecStatus == InitStatus /\ [][NextStatus]_vars

NextTracked ==
    \/ TrackedMount
    \/ TrackedRefresh
    \/ TrackedListSettles
    \/ TrackedDetailSettles
    \/ TrackedSetFilter

NextHome ==
    \/ HomeMount
    \/ HomeRefresh
    \/ HomeAirdropsSettles
    \/ HomeUserSettles
    \/ HomeSetFilter
    \/ HomeCheckinTap
    \/ HomeCheckinSettles

NextProfile ==
    \/ ProfileMount
    \/ ProfileUserSettles
    \/ ProfileCheckinTap
    \/ ProfileCheckinSettles
    \/ Tick

NextDetail ==
    \/ DetailMount
    \/ DetailAirdropSettles
    \/ DetailStatusSettles
    \/ DetailTrackTap
    \/ DetailTrackSettles
    \/ DetailCompleteTap
    \/ DetailCompleteSettles
    \/ DetailToggleModal
    \/ DetailTypeWallet
    \/ DetailCheckEligibility
    \/ DetailEligibilitySettles

Next ==
    \/ DismissAlert
    \/ NextTracked
    \/ NextHome
    \/ NextProfile
    \/ NextDetail

\* every screen
Spec == Init /\ [][Next]_vars

\* MyAirdrops alone
InitTracked == InitOn({"tracked"})
SpecTracked == InitTracked /\ [][NextTracked]_vars

\* the two list screens, Index and MyAirdrops
InitLists == InitOn({"home", "tracked"})
NextLists == DismissAlert \/ NextHome \/ NextTracked
SpecLists == InitLists /\ [][NextLists]_vars

\* the two screens with a check-in button, Index and Profile
InitCheckin == InitOn({"home", "profile"})
NextCheckin == DismissAlert \/ NextHome \/ NextProfile
SpecCheckin == InitCheckin /\ [][NextCheckin]_vars

\* AirdropDetail alone
InitDetail == InitOn({"detail"})
NextDetailScreen == DismissAlert \/ NextDetail
SpecDetail == InitDetail /\ [][NextDetailScreen]_vars
\* ================================================================ claims

\* the k-th smallest element of a finite set of integers
Kth(S, k) == CHOOSE i \in S : Cardinality({j \in S : j < i}) = k - 1

\* the subsequence of list at the positions in S, in order
AtPositions(list, S) == [k \in 1..Cardinality(S) |-> list[Kth(S, k)]]

\* C1: on the loaded tracked-airdrops screen the cards are, in order, exactly
\* the displayed statuses whose airdrop_id is a key of airdropDetails: one
\* card each, carrying that status and that entry, and none for the others.
C1_CardsAreJoin ==
    (screen = "tracked" /\ ~loading) =>
        LET shown == TrackedFilteredAirdrops
            have  == {i \in 1..Len(shown) : shown[i].airdrop_id \in DOMAIN airdropDetails}
        IN  /\ Len(TrackedCards) = Cardinality(have)
            /\ \A k \in 1..Len(TrackedCards) :
                  /\ TrackedCards[k].userAirdrop = shown[Kth(have, k)]
                  /\ TrackedCards[k].airdrop = airdropDetails[shown[Kth(have, k)].airdrop_id]

\* a displayed status with an entry next to a displayed status without one
C1_Witness ==
    /\ screen = "tracked" /\ ~loading
    /\ Len(TrackedCards) >= 1
    /\ Len(TrackedCards) < Len(TrackedFilteredAirdrops)

\* C2: when a load has finished, every detail request of it that succeeded
\* has its entry in the stored airdropDetails, and every one that failed
\* left only its own entry absent.
C2_SuccessesKept ==
    (screen = "tracked" /\ fetch.list = "ok"
        /\ \A i \in 1..Len(detailFetch) : detailFetch[i] # "inflight") =>
        \A i \in 1..Len(detailFetch) :
            LET key == data[i].airdrop_id
            IN  /\ detailFetch[i] = "ok" =>
                    key \in DOMAIN airdropDetails /\ airdropDetails[key] = AirdropBody(key)
                /\ detailFetch[i] \in {"nonok", "threw"} => key \notin DOMAIN airdropDetails

\* a finished load with at least one failed and one successful detail request
C2_Witness ==
    /\ screen = "tracked" /\ fetch.list = "ok"
    /\ \A i \in 1..Len(detailFetch) : detailFetch[i] # "inflight"
    /\ \E i, j \in 1..Len(detailFetch) :
          detailFetch[i] = "threw" /\ detailFetch[j] = "ok"

\* C3: a step that calls setAirdropDetails leaves no detail request of the
\* load in flight.
C3_StoreAfterAllSettled ==
    [][storesDone' # storesDone =>
          \A i \in 1..Len(detailFetch') : detailFetch'[i] \in Outcomes]_vars

\* a store made by a load of two detail requests, one of which failed
C3_Witness ==
    /\ screen = "tracked" /\ storesDone >= 1
    /\ Len(detailFetch) >= 2
    /\ \E i \in 1..Len(detailFetch) : detailFetch[i] = "nonok"
    /\ airdropDetails # EmptyDict

\* C4 as stated: on each of the four screens, once the mount effect has run
\* and every request of the initial load has settled, loading is false, and
\* it is still false in every later load.
C4_LoadingCleared ==
    /\ (loadsStarted = 1
          /\ \A s \in DOMAIN fetch : fetch[s] # "inflight"
          /\ \A i \in 1..Len(detailFetch) : detailFetch[i] # "inflight") => ~loading
    /\ loadsStarted >= 2 => ~loading

\* a failure settled in this step at one of the call sites of the loads
FetchFailedStep(s) == fetch[s] = "inflight" /\ fetch'[s] \in {"nonok", "threw"}

\* a detail request of MyAirdrops failed in this step
TrackedDetailFailedStep ==
    /\ Len(detailFetch') = Len(detailFetch)
    /\ \E i \in 1..Len(detailFetch) :
          detailFetch[i] = "inflight" /\ detailFetch'[i] \in {"nonok", "threw"}

\* a request started by a tap failed in this step
TapFailedStep ==
    /\ PendingTotal(pending') < PendingTotal(pending)
    /\ lastSettled'.outcome \in {"nonok", "threw"}

ErrorTitles == {"Error", "Check-in Failed"}

C6_DateBoundary ==
    (fnOut # Null /\ "can" \in DOMAIN fnOut) =>
        LET u == fnIn.user
            absent == IF u = Null THEN TRUE ELSE u.last_checkin = Undefined
            dayStart(d) == d * 1440 - tzOffset
            sameDay == \E d \in (0 - 1)..(MaxDay + 2) :
                          /\ dayStart(d) <= u.last_checkin.time
                          /\ u.last_checkin.time < dayStart(d + 1)
                          /\ dayStart(d) <= now
                          /\ now < dayStart(d + 1)
        IN  fnOut.can = (IF absent THEN TRUE ELSE ~sameDay)

\* a check-in at 23:59 and a clock at 00:01 of the next day: allowed after
\* two minutes
C6_Witness ==
    /\ fnOut # Null /\ "can" \in DOMAIN fnOut
    /\ tzOffset = 0
    /\ fnIn.user # Null /\ fnIn.user.last_checkin = Instant(1439)
    /\ now = 1441
    /\ fnOut.can = TRUE

\* C7: for an integer percentage in 0..100 the bar colour is the success
\* tier exactly at 100, the warn tier exactly on 50..99 and the accent tier
\* exactly below 50.
C7_ProgressTiers ==
    (fnOut # Null /\ "color" \in DOMAIN fnOut) =>
        LET p == fnIn.percentage
            c == fnOut.color
        IN  /\ c \in {"success", "warning", "accent"}
            /\ c = "success" <=> p = 100
            /\ c = "warning" <=> (50 <= p /\ p < 100)
            /\ c = "accent"  <=> p < 50

\* the boundary at exactly 50
C7_Witness ==
    /\ fnOut # Null /\ "color" \in DOMAIN fnOut
    /\ fnIn.percentage = 50
    /\ fnOut.color = "warning"

\* what a filter must return: the whole list for 'all', otherwise the
\* elements of the given status at their positions, in order
IsFiltered(result, input, f) ==
    IF f = "all" THEN result = input
    ELSE result = AtPositions(input, {i \in 1..Len(input) : input[i].status = f})

\* C8: on the catalog screen and on the tracked screen the filtered list is
\* the input for 'all' and otherwise the in-order subsequence of the elements
\* whose status equals the filter.
C8_FilterByStatus ==
    /\ screen = "tracked" => IsFiltered(TrackedFilteredAirdrops, userAirdrops, selectedFilter)
    /\ screen = "home" => IsFiltered(HomeFilteredAirdrops, airdrops, selectedFilter)

\* a filter that keeps the second of two catalog entries
C8_Witness ==
    /\ screen = "home"
    /\ selectedFilter = "expired"
    /\ Len(airdrops) = 2
    /\ airdrops[1].status = "active"
    /\ airdrops[2].status = "expired"
    /\ HomeFilteredAirdrops = <<airdrops[2]>>

\* C9: the header's total is the number of tracking records held, and the
\* completed and in-progress counts together do not exceed it.
C9_HeaderCounts ==
    screen = "tracked" =>
        /\ HeaderTotal = Cardinality(DOMAIN userAirdrops)
        /\ HeaderCompleted + HeaderInProgress <= HeaderTotal

\* a filtered view that hides records while the header still counts them
C9_Witness ==
    /\ screen = "tracked" /\ ~loading
    /\ HeaderTotal = 2 /\ HeaderCompleted = 1 /\ HeaderInProgress = 1
    /\ Len(TrackedFilteredAirdrops) = 1

NumWithStatus(s) == Cardinality({i \in DOMAIN userAirdrops : userAirdrops[i].status = s})

\* C10 as stated: completed + in_progress + not_started = total for every
\* list of records the client holds.
C10_Original ==
    screen = "tracked" =>
        HeaderCompleted + HeaderInProgress + NumWithStatus("not_started") = HeaderTotal

\* C10 as amended: the three counts never exceed the total, and they add up
\* to it exactly when every record held has one of the three known statuses.
C10_Amended ==
    screen = "tracked" =>
        LET sum == HeaderCompleted + HeaderInProgress + NumWithStatus("not_started")
        IN  /\ sum <= HeaderTotal
            /\ sum = HeaderTotal <=>
                 \A i \in DOMAIN userAirdrops :
                    userAirdrops[i].status \in {"completed", "in_progress", "not_started"}

\* a list holding a record of an unknown status next to a completed one
C10_Witness ==
    /\ screen = "tracked"
    /\ \E i, j \in DOMAIN userAirdrops :
          /\ userAirdrops[i].status = "paused"
          /\ userAirdrops[j].status = "completed"

\* the colours of the theme, and the icons of the status row
ThemeColors == {"success", "warning", "error", "accent", "textSecondary"}
StatusIcons == {"checkmark-circle", "time", "ellipse-outline"}

\* C11: the status-to-colour mappings of the three screens and the
\* status-to-icon mapping of the tracked screen give a result for every status
\* string, and for every string their switch does not name the result is the
\* secondary text colour and the outline icon.
C11_StatusMappingsTotal ==
    (fnOut # Null /\ "status" \in DOMAIN fnIn) =>
        /\ fnOut.color \in ThemeColors
        /\ fnOut.site = "tracked" =>
             /\ fnOut.icon \in StatusIcons
             /\ fnIn.status \notin KnownTrackStatuses =>
                  (fnOut.color = "textSecondary" /\ fnOut.icon = "ellipse-outline")
        /\ (fnOut.site \in {"home", "detail"} /\ fnIn.status \notin KnownCatalogStatuses) =>
             fnOut.color = "textSecondary"

\* a status that no switch names has been mapped on the tracked screen
C11_Witness ==
    /\ fnOut # Null
    /\ "status" \in DOMAIN fnIn
    /\ fnIn.status = "paused"
    /\ fnOut.site = "tracked"
    /\ fnOut.icon = "ellipse-outline"

\* a check-in request settles with a non-OK response
CheckinNonOkStep ==
    /\ screen \in {"home", "profile"}
    /\ pending'.checkin < pending.checkin
    /\ lastSettled'.outcome = "nonok"

\* C12 as stated: after a non-OK check-in response a failure alert is on
\* display whose text is the body's message field whenever the body has one,
\* and a generic text otherwise, and the user record is unchanged.
C12_Original ==
    [][CheckinNonOkStep =>
         LET body == lastSettled'.body
         IN  /\ alert' # Null
             /\ alert'.title \in {"Check-in Failed", "Error"}
             /\ "message" \in DOMAIN body => alert'.message = body.message
             /\ "message" \notin DOMAIN body =>
                  alert'.message \in {"Something went wrong", "Failed to complete check-in"}
             /\ user' = user]_vars

\* C12, amended: a non-OK check-in response leaves the user record unchanged
\* and raises a failure alert.  Its text is the body's message field when the
\* body is JSON with a non-empty message; it is 'Something went wrong' when the
\* JSON body has no message or an empty one; and when the body cannot be read
\* as JSON the alert is the 'Error' / 'Failed to complete check-in' one.
C12_Amended ==
    [][CheckinNonOkStep =>
         LET body == lastSettled'.body
         IN  /\ user' = user
             /\ alert' # Null
             /\ IF "notJson" \in DOMAIN body
                THEN alert' = [title |-> "Error", message |-> "Failed to complete check-in"]
                ELSE /\ alert'.title = "Check-in Failed"
                     /\ alert'.message =
                          (IF "message" \in DOMAIN body /\ body.message # ""
                           THEN body.message
                           ELSE "Something went wrong")]_vars

\* a non-OK check-in response whose body carries a message is on display on
\* the profile screen, the user record loaded
C12_Witness ==
    /\ screen = "profile"
    /\ Truthy(user)
    /\ lastSettled # Null
    /\ lastSettled.outcome = "nonok"
    /\ "message" \in DOMAIN lastSettled.body
    /\ lastSettled.body.message # ""
    /\ alert # Null
    /\ alert.message = lastSettled.body.message

\* the requests that a loading or refreshing flag waits on (the user-status
\* request of the detail screen is awaited by nothing)
AwaitedSites == {"airdrops", "user", "list", "airdrop"}

AwaitedInFlight ==
    \/ \E s \in AwaitedSites : fetch[s] = "inflight"
    \/ \E i \in 1..Len(detailFetch) : detailFetch[i] = "inflight"

\* while an awaited request is in flight the flag that waits on it is set, and
\* what does not wait on a request stays usable: the detail view is shown
\* whatever the user-status request does, and during a refresh the list and
\* its filter chips stay on display
C13_Waiting ==
    /\ (loadsStarted = 1 /\ AwaitedInFlight) => loading
    /\ (loadsStarted > 1 /\ AwaitedInFlight) => refreshing
    /\ (screen = "detail" /\ fetch.airdrop \in Outcomes) => ~loading
    /\ (screen = "home" /\ refreshing) => (~loading /\ ENABLED HomeSetFilter)
    /\ (screen = "tracked" /\ refreshing) => (~loading /\ ENABLED TrackedSetFilter)

\* a step taken while a request is in flight: the request is still in flight
\* or has settled (it is not dropped), no new load is started, and if the
\* request is awaited and still in flight the flags are as they were
C13_Step ==
    /\ \A s \in DOMAIN fetch :
         fetch[s] = "inflight" =>
           /\ fetch'[s] \in {"inflight"} \cup Outcomes
           /\ loadsStarted' = loadsStarted
           /\ (s \in AwaitedSites /\ fetch'[s] = "inflight") =>
                (loading' = loading /\ refreshing' = refreshing)
    /\ \A i \in 1..Len(detailFetch) :
         detailFetch[i] = "inflight" =>
           /\ Len(detailFetch') = Len(detailFetch)
           /\ detailFetch'[i] \in {"inflight"} \cup Outcomes
           /\ loadsStarted' = loadsStarted
           /\ detailFetch'[i] = "inflight" =>
                (loading' = loading /\ refreshing' = refreshing
                   /\ airdropDetails' = airdropDetails)

\* C13: there is no timeout, retry or cancellation.  A request in flight is
\* neither re-issued nor dropped, the loading (or refreshing) flag that waits
\* on it stays set for as long as it has not settled, and the parts of the UI
\* that do not wait on it stay usable.
C13_NoTimeoutNoRetry == [](C13_Waiting) /\ [][C13_Step]_vars

\* on the home screen the catalog has arrived and been stored while the user
\* request is still in flight, and the spinner is still shown
C13_Witness ==
    /\ screen = "home"
    /\ loadsStarted = 1
    /\ fetch.airdrops = "ok"
    /\ fetch.user = "inflight"
    /\ airdrops # << >>
    /\ loading

\* the record at position i of the latest list has lost its detail request,
\* and no detail request of that batch is still in flight
DetailFailed(i) ==
    /\ detailFetch[i] \in {"nonok", "threw"}
    /\ \A j \in 1..Len(detailFetch) : detailFetch[j] # "inflight"

\* such a record has no entry in airdropDetails and no card
C14_Omitted ==
    screen = "tracked" =>
      \A i \in 1..Len(detailFetch) :
        DetailFailed(i) =>
          /\ Lookup(airdropDetails, data[i].airdrop_id) = Undefined
          /\ \A k \in 1..Len(TrackedCards) :
               TrackedCards[k].userAirdrop.airdrop_id # data[i].airdrop_id

\* a step that puts a request in flight on the tracked screen is the mount
\* effect, a pull to refresh, or the arrival of the list that either of them
\* asked for
C14_Step ==
    screen = "tracked" =>
      /\ (fetch.list # "inflight" /\ fetch'.list = "inflight") =>
           /\ loadsStarted' = loadsStarted + 1
           /\ loadsStarted = 0 \/ (~refreshing /\ refreshing')
      /\ (\E i \in 1..Len(detailFetch') :
             detailFetch'[i] = "inflight"
               /\ (i > Len(detailFetch) \/ detailFetch[i] # "inflight")) =>
           (fetch.list = "inflight" /\ fetch'.list = "ok")

\* C14: a tracked airdrop whose detail request failed has no card, and stays
\* without one: no request is put in flight except by the mount effect or by
\* a pull to refresh (and the list response either of them leads to).
C14_NoAutomaticRefetch == [](C14_Omitted) /\ [][C14_Step]_vars

\* the finished first load lost the detail of a record, the filter has since
\* been set to that record's status, and the record is displayed without a card
C14_Witness ==
    /\ screen = "tracked"
    /\ loadsStarted = 1
    /\ ~loading
    /\ Len(detailFetch) = 2
    /\ DetailFailed(1)
    /\ detailFetch[2] = "ok"
    /\ selectedFilter = "in_progress"
    /\ Len(TrackedFilteredAirdrops) = 2
    /\ Len(TrackedCards) = 1

\* with a check-in request in flight the check-in button still takes a tap: on
\* the home screen whenever the user is loaded, on the profile screen whenever
\* the button is enabled (canCheckinToday, which no request in flight changes)
C15_TapTaken ==
    /\ (screen = "home" /\ ~loading /\ Truthy(user)
          /\ pending.checkin \in 1..(MaxPending - 1)) => ENABLED HomeCheckinTap
    /\ (screen = "profile" /\ ~loading /\ Truthy(user) /\ canCheckinToday(user, now)
          /\ pending.checkin \in 1..(MaxPending - 1)) => ENABLED ProfileCheckinTap

\* a tap adds one request of its own and leaves the ones in flight alone
C15_Step ==
    (screen \in {"home", "profile"} /\ pending'.checkin > pending.checkin) =>
        /\ pending'.checkin = pending.checkin + 1
        /\ user' = user
        /\ alert' = alert

\* C15: check-in taps are not debounced.  A tap made while a check-in request
\* is in flight issues a request of its own, on the home screen and on the
\* profile screen, so that two check-in requests are in flight at once.
C15_NotDebounced == [](C15_TapTaken) /\ [][C15_Step]_vars

\* two check-in requests are in flight on the profile screen
C15_Witness ==
    /\ screen = "profile"
    /\ pending.checkin = 2
    /\ lastSettled = Null

\* the record of the latest list response that a card was made from
ResponseRecord(card) == CHOOSE r \in {data[i] : i \in 1..Len(data)} : r.id = card.key

\* every card displays the percentage of its record in the list response,
\* and the bar colour of that percentage
C16_Shown ==
    screen = "tracked" =>
      \A k \in 1..Len(TrackedCards) :
        LET card == TrackedCards[k]
        IN  /\ \E i \in 1..Len(data) : data[i].id = card.key
            /\ CardDisplay(card).percent = ResponseRecord(card).progress_percentage
            /\ CardDisplay(card).color =
                 getProgressBarColor(ResponseRecord(card).progress_percentage)

\* the records held change only when a list response is stored, and then
\* they are the response
C16_Step ==
    userAirdrops' # userAirdrops =>
        (fetch.list = "inflight" /\ fetch'.list = "ok" /\ userAirdrops' = data')

\* C16: the progress a card shows is the progress_percentage of its record as
\* the backend returned it; no operation of the client changes the records it
\* holds, and the percentage is shown as it is also when it differs from the
\* share of completed tasks.
C16_ProgressVerbatim == [](C16_Shown) /\ [][C16_Step]_vars

\* a card shows 100% for a record with one of its two tasks completed
C16_Witness ==
    /\ screen = "tracked"
    /\ \E k \in 1..Len(TrackedCards) :
         LET card == TrackedCards[k]
         IN  /\ CardDisplay(card).percent = 100
             /\ CardDisplay(card).tasks[1] < CardDisplay(card).tasks[2]

\* C17: on the home screen the catalog request and the user request are
\* independent.  When one of them fails (thrown error or non-OK response) its
\* own state keeps its previous value and the other's state is not touched;
\* when one of them succeeds its body is stored, whatever became of the other.
C17_IndependentFetches ==
    [][screen = "home" =>
         /\ (fetch.airdrops = "inflight" /\ fetch'.airdrops \in {"nonok", "threw"}) =>
              (airdrops' = airdrops /\ user' = user)
         /\ (fetch.user = "inflight" /\ fetch'.user \in {"nonok", "threw"}) =>
              (user' = user /\ airdrops' = airdrops)
         /\ (fetch.airdrops = "inflight" /\ fetch'.airdrops = "ok") =>
              (airdrops' \in CatalogLists /\ user' = user)
         /\ (fetch.user = "inflight" /\ fetch'.user = "ok") =>
              (user' \in UserBodies /\ airdrops' = airdrops)]_vars

\* the first load is over: the catalog request threw, the catalog is still
\* empty, and the user of the OK response is stored
C17_Witness ==
    /\ screen = "home"
    /\ loadsStarted = 1
    /\ fetch.airdrops = "threw"
    /\ fetch.user = "ok"
    /\ airdrops = << >>
    /\ user \in UserBodies
    /\ ~loading

\* a check-in request settles
CheckinSettlesStep ==
    /\ screen \in {"home", "profile"}
    /\ pending'.checkin < pending.checkin

CompleteSettlesStep(t) ==
    /\ screen = "detail"
    /\ pending'.complete[t] < pending.complete[t]

\* C19: the step in which an OK complete-task response for task t arrives
\* makes completedTasks the old list followed by t, and changes neither the
\* airdrop, nor tracking, nor the eligibility result (nor the wallet input and
\* the modal).
C19_CompleteAppends ==
    [][\A t \in TaskIds :
         (CompleteSettlesStep(t) /\ lastSettled'.outcome = "ok") =>
            /\ completedTasks' = Append(completedTasks, t)
            /\ airdrop' = airdrop
            /\ tracking' = tracking
            /\ eligibilityResult' = eligibilityResult
            /\ walletAddress' = walletAddress
            /\ showEligibilityModal' = showEligibilityModal
            /\ checkingEligibility' = checkingEligibility]_vars

\* with no status response ever stored, task 2 and then task 1 were completed
C19_Witness ==
    /\ screen = "detail"
    /\ fetch.status = "threw"
    /\ tracking
    /\ completedTasks = <<2, 1>>
    /\ lastSettled # Null
    /\ lastSettled.outcome = "ok"

\* a track request, or a complete-task request, settles with a failure
TrackOrCompleteFailedStep ==
    /\ screen = "detail"
    /\ pending'.track < pending.track
         \/ \E t \in TaskIds : pending'.complete[t] < pending.complete[t]
    /\ lastSettled'.outcome \in {"nonok", "threw"}

\* C20: the step in which a track request or a complete-task request fails
\* (non-OK response or thrown error) leaves tracking and completedTasks as
\* they were and puts an 'Error' alert on display.
C20_FailureLeavesState ==
    [][TrackOrCompleteFailedStep =>
         /\ tracking' = tracking
         /\ completedTasks' = completedTasks
         /\ alert' # Null
         /\ alert'.title = "Error"]_vars

\* a non-OK complete-task response has raised its alert while a task
\* completed earlier is still the whole list
C20_Witness ==
    /\ screen = "detail"
    /\ tracking
    /\ completedTasks = <<1>>
    /\ lastSettled # Null
    /\ lastSettled.outcome = "nonok"
    /\ alert = [title |-> "Error", message |-> "Failed to complete task"]

\* an eligibility request settles
EligibilitySettlesStep ==
    /\ screen = "detail"
    /\ Len(pending'.eligibility) < Len(pending.eligibility)

\* C21: the eligibility result held by the detail screen is the body of the
\* latest OK eligibility response processed.  The step of an OK response
\* stores its body and closes the modal, the step of a failed check leaves
\* the stored result and the modal's visibility as they were, and no other
\* step changes the stored result.
C21_EligibilityResult ==
    [][/\ (EligibilitySettlesStep /\ lastSettled'.outcome = "ok") =>
            (eligibilityResult' = lastSettled'.body /\ ~showEligibilityModal')
       /\ (EligibilitySettlesStep /\ lastSettled'.outcome \in {"nonok", "threw"}) =>
            /\ eligibilityResult' = eligibilityResult
            /\ showEligibilityModal' = showEligibilityModal
       /\ ~EligibilitySettlesStep => eligibilityResult' = eligibilityResult]_vars

\* a result was stored by an OK response, and a later check has failed with
\* the modal open: the stored result is still there
C21_Witness ==
    /\ screen = "detail"
    /\ Truthy(eligibilityResult)
    /\ eligibilityResult.is_eligible
    /\ lastSettled # Null
    /\ lastSettled.outcome = "threw"
    /\ alert = [title |-> "Error", message |-> "Network error occurred"]
    /\ showEligibilityModal
    /\ ~checkingEligibility
    /\ pending = NoPending

\* C22 as stated: whenever the list section of the tracked screen shows its
\* title, the number in the title is the number of cards rendered, and at
\* least one card is rendered.
C22_TitleCountsCards ==
    TrackedListShown =>
        (TrackedTitleCount = Len(TrackedCards) /\ Len(TrackedCards) > 0)

\* C23 as stated: on the detail screen completedTasks never holds the same
\* task id at two positions (the lists the backend returns hold none twice).
C23_NoDuplicateTasks ==
    screen = "detail" =>
        \A i, j \in 1..Len(completedTasks) :
            i # j => completedTasks[i] # completedTasks[j]

\* C24 as stated: on the detail screen a task id that is in completedTasks
\* (put there by an OK complete-task response: the one user-status response
\* of a mount is the only other writer) is still in it after every step.
C24_CompletedKept ==
    [][screen = "detail" =>
         \A t \in TaskIds :
            (\E i \in 1..Len(completedTasks) : completedTasks[i] = t) =>
               (\E j \in 1..Len(completedTasks') : completedTasks'[j] = t)]_vars

\* C25 as stated: on the home screen and on the profile screen a step that
\* issues a check-in request starts in a state where canCheckinToday holds of
\* the user record and the clock.
C25_CheckinOnlyWhenAllowed ==
    [][(screen \in {"home", "profile"} /\ pending'.checkin > pending.checkin) =>
          canCheckinToday(user, now)]_vars

\* the user record carries a last check-in of the local calendar day of now
CheckedInToday ==
    /\ Truthy(user)
    /\ Truthy(user.last_checkin)
    /\ toDateString(user.last_checkin.time) = toDateString(now)

\* on the profile screen no check-in request can be started while the last
\* check-in is of today
C26_Disabled ==
    (screen = "profile" /\ CheckedInToday) => ~ENABLED ProfileCheckinTap

\* the step of an OK check-in response stamps last_checkin with the clock,
\* which makes it a check-in of today; and a step that starts a request does
\* not start from a check-in of today
C26_Step ==
    screen = "profile" =>
      /\ (pending'.checkin < pending.checkin /\ lastSettled'.outcome = "ok") =>
           /\ Truthy(user')
           /\ user'.last_checkin = Instant(now)
           /\ toDateString(user'.last_checkin.time) = toDateString(now')
      /\ pending'.checkin > pending.checkin => ~CheckedInToday

\* C26: on the profile screen, once an OK check-in response has been
\* processed, last_checkin is the time of processing, the check-in button is
\* disabled, and no check-in request is started until the local calendar date
\* has changed.
C26_ProfileAfterCheckin == [](C26_Disabled) /\ [][C26_Step]_vars

\* an OK response was processed late on a local day, and the button is
\* disabled although the previous check-in was the day before
C26_Witness ==
    /\ screen = "profile"
    /\ lastSettled # Null
    /\ lastSettled.outcome = "ok"
    /\ Truthy(user)
    /\ user.last_checkin = Instant(now)
    /\ now > 1
    /\ pending.checkin = 0
    /\ ~ENABLED ProfileCheckinTap

\* C27: a detail screen mounted without a route id never issues a request,
\* keeps loading true in every state, and so never shows the airdrop view nor
\* the 'Airdrop not found' view.
C27_NoIdSpinsForever ==
    (screen = "detail" /\ ~Truthy(id)) =>
        /\ loading
        /\ fetch = NoFetch
        /\ pending = NoPending
        /\ ~DetailShown
        /\ ~DetailNotFoundShown

\* the mount effect of a detail screen without a route id has run
C27_Witness ==
    /\ screen = "detail"
    /\ id = Undefined
    /\ loadsStarted = 1
    /\ loading

\* C28: on the detail screen at most one eligibility request is in flight,
\* and checkingEligibility is true exactly while one is: it is set when the
\* request is issued, bars a new request while set, and is cleared when the
\* request settles, whatever the outcome.
C28_OneEligibilityRequest ==
    screen = "detail" =>
        /\ Len(pending.eligibility) <= 1
        /\ checkingEligibility <=> (Len(pending.eligibility) = 1)
        /\ checkingEligibility => ~ENABLED DetailCheckEligibility

\* a second check is in flight after the first one has stored its result
C28_Witness ==
    /\ screen = "detail"
    /\ Truthy(eligibilityResult)
    /\ checkingEligibility
    /\ Len(pending.eligibility) = 1

\* a string of spaces only (the empty string included)
Blank(w) == \A i \in 1..Len(w) : w[i] = " "

\* w between its first and its last character that is not a space
Stripped(w) ==
    LET solid == {i \in 1..Len(w) : w[i] # " "}
        lo == CHOOSE i \in solid : \A j \in solid : i <= j
        hi == CHOOSE i \in solid : \A j \in solid : j <= i
    IN  IF solid = {} THEN << >> ELSE SubSeq(w, lo, hi)

\* C29: a step of checkEligibility taken with an empty or whitespace-only
\* wallet address issues no request, puts an 'Error' alert on display and
\* leaves eligibilityResult, checkingEligibility and the modal as they were;
\* a step taken with any other address issues one request, which carries the
\* address without its surrounding whitespace.
C29_WalletGuard ==
    [][DetailCheckEligibility =>
         IF Blank(walletAddress)
         THEN /\ pending' = pending
              /\ alert' # Null
              /\ alert'.title = "Error"
              /\ eligibilityResult' = eligibilityResult
              /\ checkingEligibility' = checkingEligibility
              /\ showEligibilityModal' = showEligibilityModal
         ELSE /\ Len(pending'.eligibility) = Len(pending.eligibility) + 1
              /\ pending'.eligibility[Len(pending'.eligibility)] = Stripped(walletAddress)]_vars

\* the check was tapped with a wallet address of one space, after an earlier
\* check had stored a result: the alert is up and the result is still there
C29_Witness ==
    /\ screen = "detail"
    /\ walletAddress = <<" ">>
    /\ alert = [title |-> "Error", message |-> "Please enter a wallet address"]
    /\ Truthy(eligibilityResult)
    /\ showEligibilityModal
    /\ ~checkingEligibility
    /\ pending = NoPending

\* C30: on the detail screen a step that issues a complete-task request for
\* task t starts in a state where tracking is true and t is not in
\* completedTasks; and no step takes tracking from true to false.
C30_CompleteGuard ==
    [][screen = "detail" =>
         /\ \A t \in TaskIds :
              pending'.complete[t] > pending.complete[t] =>
                 /\ tracking
                 /\ \A i \in 1..Len(completedTasks) : completedTasks[i] # t
         /\ tracking => tracking']_vars

\* with task 1 completed, a complete-task request for task 2 is in flight
C30_Witness ==
    /\ screen = "detail"
    /\ tracking
    /\ completedTasks = <<1>>
    /\ pending.complete[2] = 1
    /\ pending.complete[1] = 0

====
